---------------------------- MODULE Spec2Model ----------------------------
(***************************************************************************)
(* A model of medical.py: the prescription analysis service (the FastAPI   *)
(* handler analyze_prescription and its four helpers) and the Streamlit    *)
(* client run_streamlit that posts to it.                                  *)
(*                                                                         *)
(* Python values are modelled as follows.                                  *)
(*   str            a TLA+ string                                          *)
(*   list           a sequence                                             *)
(*   dict           a function whose domain is the set of keys             *)
(*   None           the empty mapping (None and {} are both falsy and both *)
(*                  fail a subscript, which is all the code observes)      *)
(*   an exception   an outcome record [exc |-> name, val |-> ...]          *)
(* The entity extractor nlp is an external model: its output for a text is *)
(* a choice among bounded sequences of labelled spans, or a failure.       *)
(* list(set(drugs)) has no guaranteed order: it is a choice among all      *)
(* duplicate-free enumerations of the set.                                 *)
(***************************************************************************)
EXTENDS Integers, Sequences, FiniteSets, TLC

VARIABLES
    DRUG_DATABASE,    \* module-level dict, medical.py:16
    ALTERNATIVES,     \* module-level dict, medical.py:23
    ui,               \* per client: what the Streamlit page shows ("Idle",
                      \* "Submitting", "Rendered", "Failed", or "Exception"
                      \* when the script run ended in an uncaught exception)
    age,              \* per client: the age sent in the request body
    sent,             \* per client: number of POST /analyze/ requests issued
    pc,               \* per client: position of its request in the handler
    status,           \* per client: HTTP status of the response (0: none yet)
    entities,         \* per request: what nlp(text) returned
    extracted_drugs,  \* per request: local of analyze_prescription
    interactions,     \* per request: local of analyze_prescription
    dosage_info,      \* per request: local of analyze_prescription
    alternatives      \* per request: local of analyze_prescription

vars == <<DRUG_DATABASE, ALTERNATIVES, ui, age, sent, pc, status, entities,
          extracted_drugs, interactions, dosage_info, alternatives>>

tables == <<DRUG_DATABASE, ALTERNATIVES>>

locals == <<entities, extracted_drugs, interactions, dosage_info, alternatives>>

-----------------------------------------------------------------------------
(* Bounds of the model. *)

\* Longest span sequence the entity extractor returns.
MaxSpans == 3

\* Button clicks per client.
MaxTriggers == 2

\* The clients (browser sessions) that post to the service.
Clients == {1, 2}

\* Slider values: both ends of its range and both sides of every min_age of
\* the table (1, 12, 16).
Ages == {0, 1, 11, 12, 15, 16, 20, 100}

\* Surface texts the extractor may emit, in several letter cases, one of them
\* ("warfarin") unknown to both tables.
Words == {"ibuprofen", "Ibuprofen", "aspirin", "ASPIRIN", "paracetamol", "warfarin"}

-----------------------------------------------------------------------------
(* Python primitives. *)

EmptyDict == [k \in {} |-> k]

None == EmptyDict

\* Variant: the guard `if info:` left out.
TruthyAlways(x) == TRUE

\* bool(x) for a dict or None
Truthy(x) == DOMAIN x # {}

\* d.get(k, default)
DictGet(d, k, default) == IF k \in DOMAIN d THEN d[k] ELSE default

\* d[k] = v
DictSet(d, k, v) == [x \in DOMAIN d \cup {k} |-> IF x = k THEN v ELSE d[x]]

\* x in list
InList(x, list) == \E i \in 1..Len(list) : list[i] = x

\* set(list)
SetOf(list) == {list[i] : i \in 1..Len(list)}

\* list(s) for a set s: every enumeration of s without repetition
ListOfSet(s) ==
    {l \in [1..Cardinality(s) -> s] : \A i, j \in 1..Cardinality(s) : l[i] = l[j] => i = j}

\* str.lower() on the surface texts of Words
Lower(w) ==
    CASE w = "Ibuprofen" -> "ibuprofen"
      [] w = "ASPIRIN" -> "aspirin"
      [] OTHER -> w

\* the outcome of a call: a returned value or a raised exception
Ok(v) == [exc |-> "none", val |-> v]

Raised(e) == [exc |-> e, val |-> <<>>]

-----------------------------------------------------------------------------
(* The static tables. *)

DRUG_DATABASE_INIT ==
    [ibuprofen |-> [interacts_with |-> <<"aspirin">>, min_age |-> 12, dosage |-> "200mg"],
     aspirin |-> [interacts_with |-> <<"ibuprofen">>, min_age |-> 16, dosage |-> "100mg"],
     paracetamol |-> [interacts_with |-> <<>>, min_age |-> 1, dosage |-> "500mg"]]

ALTERNATIVES_INIT == [ibuprofen |-> "paracetamol", aspirin |-> "paracetamol"]

-----------------------------------------------------------------------------
(* The entity extractor's possible outputs. *)

Span(w, g) == [word |-> w, entity_group |-> g]

\* Every surface text labelled MISC, and a drug name under another label.
Spans == {Span(w, "MISC") : w \in Words} \cup {Span("aspirin", "ORG")}

SeqsUpTo(S, n) == UNION {[1..k -> S] : k \in 0..n}

\* nlp(text), for the texts of the single-client specification
SpanSeqs == SeqsUpTo(Spans, MaxSpans)

-----------------------------------------------------------------------------
(* The helpers of analyze_prescription. *)

\* [ent['word'].lower() for ent in entities if ent['entity_group'] == 'MISC']
RECURSIVE MiscWords(_)
MiscWords(ents) ==
    IF ents = <<>> THEN <<>>
    ELSE IF Head(ents).entity_group = "MISC"
         THEN <<Lower(Head(ents).word)>> \o MiscWords(Tail(ents))
         ELSE MiscWords(Tail(ents))

\* Variant: `return drugs`, the list as built, without set().
extract_drugs_list(ents) == {MiscWords(ents)}

\* extract_drugs, given the extractor's output: the lists list(set(drugs)) may be
extract_drugs(ents) == ListOfSet(SetOf(MiscWords(ents)))

\* Variant: the two names in the other order.
StatementSwapped(drug, other) == other \o " interacts with " \o drug

\* f"{drug} interacts with {other}"
Statement(drug, other) == drug \o " interacts with " \o other

\* Variant: `other in DRUG_DATABASE.get(drug, {})`, a test against the keys of
\* the record instead of its interacts_with list.
InteractsKeyed(db, drug, other) == other \in DOMAIN DictGet(db, drug, EmptyDict)

\* Variant: the pair tested in both directions.
InteractsEitherWay(db, drug, other) ==
    \/ InList(other, DictGet(DictGet(db, drug, EmptyDict), "interacts_with", <<>>))
    \/ InList(drug, DictGet(DictGet(db, other, EmptyDict), "interacts_with", <<>>))

\* other in DRUG_DATABASE.get(drug, {}).get("interacts_with", [])
Interacts(db, drug, other) ==
    InList(other, DictGet(DictGet(db, drug, EmptyDict), "interacts_with", <<>>))

\* for other in drugs[i+1:]
RECURSIVE InnerLoop(_, _, _, _)
InnerLoop(db, drug, rest, acc) ==
    IF rest = <<>> THEN acc
    ELSE InnerLoop(db, drug, Tail(rest),
                   IF Interacts(db, drug, Head(rest))
                   THEN Append(acc, Statement(drug, Head(rest)))
                   ELSE acc)

\* for i, drug in enumerate(drugs)
RECURSIVE OuterLoop(_, _, _, _)
OuterLoop(db, drugs, i, acc) ==
    IF i > Len(drugs) THEN acc
    ELSE OuterLoop(db, drugs, i + 1,
                   InnerLoop(db, drugs[i], SubSeq(drugs, i + 1, Len(drugs)), acc))

CheckInteractionsIn(db, drugs) == Ok(OuterLoop(db, drugs, 1, <<>>))

check_interactions(drugs) == CheckInteractionsIn(DRUG_DATABASE, drugs)

\* f"Not recommended under age {info['min_age']}"
Restriction(min_age) == "Not recommended under age " \o ToString(min_age)

\* Variant: age > info["min_age"].
AgeAllowedStrict(a, min_age) == a > min_age

\* age >= info["min_age"]
AgeAllowed(a, min_age) == a >= min_age

\* for drug in drugs: the body of the loop of recommend_dosage
RECURSIVE DosageLoop(_, _, _, _, _)
DosageLoop(db, drugs, a, i, dosage) ==
    IF i > Len(drugs) THEN Ok(dosage)
    ELSE LET drug == drugs[i]
             info == DictGet(db, drug, None)
         IN  IF ~Truthy(info) THEN DosageLoop(db, drugs, a, i + 1, dosage)
             ELSE IF "min_age" \notin DOMAIN info THEN Raised("KeyError")
             ELSE IF AgeAllowed(a, info["min_age"])
                  THEN IF "dosage" \notin DOMAIN info THEN Raised("KeyError")
                       ELSE DosageLoop(db, drugs, a, i + 1,
                                       DictSet(dosage, drug, info["dosage"]))
                  ELSE DosageLoop(db, drugs, a, i + 1,
                                  DictSet(dosage, drug, Restriction(info["min_age"])))

\* Variant: `for drug in DRUG_DATABASE`, a loop over the table's keys.
RecommendDosageAllKeys(db, drugs, a) ==
    DosageLoop(db, <<"ibuprofen", "aspirin", "paracetamol">>, a, 1, EmptyDict)

RecommendDosageIn(db, drugs, a) == DosageLoop(db, drugs, a, 1, EmptyDict)

recommend_dosage(drugs, a) == RecommendDosageIn(DRUG_DATABASE, drugs, a)

\* Variant: the comprehension without its `if drug in ALTERNATIVES`.
SuggestAlternativesUnfiltered(alt, drugs) ==
    Ok([drug \in SetOf(drugs) |-> DictGet(alt, drug, "No alternative found")])

\* {drug: ALTERNATIVES.get(drug, "No alternative found")
\*  for drug in drugs if drug in ALTERNATIVES}
SuggestAlternativesIn(alt, drugs) ==
    Ok([drug \in {d \in SetOf(drugs) : d \in DOMAIN alt}
            |-> DictGet(alt, drug, "No alternative found")])

suggest_alternatives(drugs) == SuggestAlternativesIn(ALTERNATIVES, drugs)

-----------------------------------------------------------------------------
(* The state machine. *)

NoRequest == [c \in Clients |-> <<>>]

Init ==
    /\ DRUG_DATABASE = DRUG_DATABASE_INIT
    /\ ALTERNATIVES = ALTERNATIVES_INIT
    /\ ui = [c \in Clients |-> "Idle"]
    /\ age = [c \in Clients |-> 25]
    /\ sent = [c \in Clients |-> 0]
    /\ pc = [c \in Clients |-> "none"]
    /\ status = [c \in Clients |-> 0]
    /\ entities = NoRequest
    /\ extracted_drugs = NoRequest
    /\ interactions = NoRequest
    /\ dosage_info = [c \in Clients |-> EmptyDict]
    /\ alternatives = [c \in Clients |-> EmptyDict]

ClearLocals(c) ==
    /\ entities' = [entities EXCEPT ![c] = <<>>]
    /\ extracted_drugs' = [extracted_drugs EXCEPT ![c] = <<>>]
    /\ interactions' = [interactions EXCEPT ![c] = <<>>]
    /\ dosage_info' = [dosage_info EXCEPT ![c] = EmptyDict]
    /\ alternatives' = [alternatives EXCEPT ![c] = EmptyDict]

\* An exception leaves the handler: the framework answers 500.
Unhandled(c) ==
    /\ status' = [status EXCEPT ![c] = 500]
    /\ pc' = [pc EXCEPT ![c] = "responded"]

\* The page after the response: rendered results or st.error("Backend Error").
AfterResponse(code) == IF code = 200 THEN "Rendered" ELSE "Failed"

\* st.button is pressed: the script reruns and posts one request, with the
\* slider's age, then blocks until the response.
ButtonClick(c, ages) ==
    /\ ui[c] # "Submitting"
    /\ sent[c] < MaxTriggers
    /\ \E a \in ages : age' = [age EXCEPT ![c] = a]
    /\ ui' = [ui EXCEPT ![c] = "Submitting"]
    /\ sent' = [sent EXCEPT ![c] = @ + 1]
    /\ pc' = [pc EXCEPT ![c] = "extract_drugs"]
    /\ status' = [status EXCEPT ![c] = 0]
    /\ ClearLocals(c)
    /\ UNCHANGED tables

\* extracted_drugs = extract_drugs(data.text), the extractor answering
ExtractDrugs(c, outputs) ==
    /\ pc[c] = "extract_drugs"
    /\ \E ents \in outputs :
          /\ entities' = [entities EXCEPT ![c] = ents]
          /\ \E drugs \in extract_drugs(ents) :
                extracted_drugs' = [extracted_drugs EXCEPT ![c] = drugs]
    /\ pc' = [pc EXCEPT ![c] = "check_interactions"]
    /\ UNCHANGED <<tables, ui, age, sent, status, interactions, dosage_info, alternatives>>

\* extract_drugs(data.text), the call nlp(text) raising
ExtractorFails(c) ==
    /\ pc[c] = "extract_drugs"
    /\ Unhandled(c)
    /\ UNCHANGED <<tables, ui, age, sent, locals>>

\* Variant: DRUG_DATABASE.setdefault(drug, {}), which inserts a record for
\* every drug the table does not know.
DatabaseAfterSetdefault(db, drugs) ==
    [d \in DOMAIN db \cup SetOf(drugs) |-> DictGet(db, d, EmptyDict)]

\* What check_interactions leaves in DRUG_DATABASE: .get() inserts nothing.
DatabaseAfterCheck(db, drugs) == db

\* interactions = check_interactions(extracted_drugs)
CheckInteractions(c) ==
    /\ pc[c] = "check_interactions"
    /\ LET r == check_interactions(extracted_drugs[c])
       IN  IF r.exc = "none"
           THEN /\ interactions' = [interactions EXCEPT ![c] = r.val]
                /\ pc' = [pc EXCEPT ![c] = "recommend_dosage"]
                /\ UNCHANGED status
           ELSE Unhandled(c) /\ UNCHANGED interactions
    /\ DRUG_DATABASE' = DatabaseAfterCheck(DRUG_DATABASE, extracted_drugs[c])
    /\ UNCHANGED <<ALTERNATIVES, ui, age, sent, entities, extracted_drugs,
                   dosage_info, alternatives>>

\* dosage_info = recommend_dosage(extracted_drugs, data.age)
RecommendDosage(c) ==
    /\ pc[c] = "recommend_dosage"
    /\ LET r == recommend_dosage(extracted_drugs[c], age[c])
       IN  IF r.exc = "none"
           THEN /\ dosage_info' = [dosage_info EXCEPT ![c] = r.val]
                /\ pc' = [pc EXCEPT ![c] = "suggest_alternatives"]
                /\ UNCHANGED status
           ELSE Unhandled(c) /\ UNCHANGED dosage_info
    /\ UNCHANGED <<tables, ui, age, sent, entities, extracted_drugs,
                   interactions, alternatives>>

\* alternatives = suggest_alternatives(extracted_drugs)
SuggestAlternatives(c) ==
    /\ pc[c] = "suggest_alternatives"
    /\ LET r == suggest_alternatives(extracted_drugs[c])
       IN  IF r.exc = "none"
           THEN /\ alternatives' = [alternatives EXCEPT ![c] = r.val]
                /\ pc' = [pc EXCEPT ![c] = "return"]
                /\ UNCHANGED status
           ELSE Unhandled(c) /\ UNCHANGED alternatives
    /\ UNCHANGED <<tables, ui, age, sent, entities, extracted_drugs,
                   interactions, dosage_info>>

\* return {...}: the framework answers 200 with the four fields
Return(c) ==
    /\ pc[c] = "return"
    /\ status' = [status EXCEPT ![c] = 200]
    /\ pc' = [pc EXCEPT ![c] = "responded"]
    /\ UNCHANGED <<tables, ui, age, sent, locals>>

\* requests.post returns: the page shows the four fields or the failure notice
ReceiveResponse(c) ==
    /\ ui[c] = "Submitting"
    /\ pc[c] = "responded"
    /\ ui' = [ui EXCEPT ![c] = AfterResponse(status[c])]
    /\ pc' = [pc EXCEPT ![c] = "none"]
    /\ UNCHANGED <<tables, age, sent, status, locals>>

\* requests.post raises (nothing listens on localhost:8000, the connection is
\* refused): no try/except surrounds the call, so the exception leaves
\* run_streamlit; neither the results nor st.error("Backend Error") is shown,
\* and the handler never ran.
PostRaises(c) ==
    /\ ui[c] = "Submitting"
    /\ pc[c] = "extract_drugs"
    /\ ui' = [ui EXCEPT ![c] = "Exception"]
    /\ pc' = [pc EXCEPT ![c] = "none"]
    /\ UNCHANGED <<tables, age, sent, status, locals>>

\* Any other widget interaction reruns the script with the button unpressed:
\* the page shows the form alone.
Rerun(c) ==
    /\ ui[c] \in {"Rendered", "Failed", "Exception"}
    /\ ui' = [ui EXCEPT ![c] = "Idle"]
    /\ status' = [status EXCEPT ![c] = 0]
    /\ ClearLocals(c)
    /\ UNCHANGED <<tables, age, sent, pc>>

\* One client session against the service, over every extractor output.
Next ==
    \/ ButtonClick(1, Ages)
    \/ ExtractDrugs(1, SpanSeqs)
    \/ ExtractorFails(1)
    \/ CheckInteractions(1)
    \/ RecommendDosage(1)
    \/ SuggestAlternatives(1)
    \/ Return(1)
    \/ ReceiveResponse(1)
    \/ PostRaises(1)
    \/ Rerun(1)

Spec == Init /\ [][Next]_vars

-----------------------------------------------------------------------------
(* Concurrent requests: every client posts, and the steps of the requests  *)
(* in the handler interleave in every way (a superset of what one event    *)
(* loop or several workers of the server schedule).                        *)

Misc(w) == Span(w, "MISC")

\* nlp(text), for the texts of the concurrent clients
ConcSpanSeqs ==
    {<<>>,
     <<Misc("ibuprofen"), Misc("ASPIRIN")>>,
     <<Misc("warfarin"), Misc("paracetamol")>>,
     <<Misc("aspirin"), Span("aspirin", "ORG")>>}

ConcAges == {11, 20}

NextConc ==
    \E c \in Clients :
        \/ ButtonClick(c, ConcAges)
        \/ ExtractDrugs(c, ConcSpanSeqs)
        \/ ExtractorFails(c)
        \/ CheckInteractions(c)
        \/ RecommendDosage(c)
        \/ SuggestAlternatives(c)
        \/ Return(c)
        \/ ReceiveResponse(c)
        \/ PostRaises(c)
        \/ Rerun(c)

SpecConc == Init /\ [][NextConc]_vars

-----------------------------------------------------------------------------
(* The helpers read the drug table they find in DRUG_DATABASE.  To state   *)
(* what check_interactions does on a table whose interaction lists are not *)
(* symmetric, this specification starts the service with either the table  *)
(* of the source or that table with aspirin's list emptied.                *)

ASYMMETRIC_DATABASE ==
    [DRUG_DATABASE_INIT EXCEPT !["aspirin"]["interacts_with"] = <<>>]

Tables == {DRUG_DATABASE_INIT, ASYMMETRIC_DATABASE}

\* nlp(text): every sequence of MISC spans
MiscSpanSeqs == SeqsUpTo({Misc(w) : w \in Words}, MaxSpans)

InitTables ==
    /\ DRUG_DATABASE \in Tables
    /\ ALTERNATIVES = ALTERNATIVES_INIT
    /\ ui = [c \in Clients |-> "Idle"]
    /\ age = [c \in Clients |-> 25]
    /\ sent = [c \in Clients |-> 0]
    /\ pc = [c \in Clients |-> "none"]
    /\ status = [c \in Clients |-> 0]
    /\ entities = NoRequest
    /\ extracted_drugs = NoRequest
    /\ interactions = NoRequest
    /\ dosage_info = [c \in Clients |-> EmptyDict]
    /\ alternatives = [c \in Clients |-> EmptyDict]

NextTables ==
    \/ ButtonClick(1, {20})
    \/ ExtractDrugs(1, MiscSpanSeqs)
    \/ ExtractorFails(1)
    \/ CheckInteractions(1)
    \/ RecommendDosage(1)
    \/ SuggestAlternatives(1)
    \/ Return(1)
    \/ ReceiveResponse(1)
    \/ PostRaises(1)
    \/ Rerun(1)

SpecTables == InitTables /\ [][NextTables]_vars

-----------------------------------------------------------------------------
(* Properties.  The expected strings are spelled out here, apart from the  *)
(* operators of the model that build them.                                 *)

\* Client c's request has passed the named step of the handler.
Extracted(c) ==
    pc[c] \in {"check_interactions", "recommend_dosage", "suggest_alternatives", "return"}
    \/ status[c] = 200

HasInteractions(c) ==
    pc[c] \in {"recommend_dosage", "suggest_alternatives", "return"} \/ status[c] = 200

HasDosage(c) == pc[c] \in {"suggest_alternatives", "return"} \/ status[c] = 200

HasAlternatives(c) == pc[c] = "return" \/ status[c] = 200

ExpectedStatement(d1, d2) == d1 \o " interacts with " \o d2

\* d2 is in interacts_with(d1), in table db
Listed(db, d1, d2) == d1 \in DOMAIN db /\ InList(d2, db[d1].interacts_with)

\* The drug pairs (d1, d2) of the source's table with d2 in interacts_with(d1)
InteractingPairs ==
    {p \in (DOMAIN DRUG_DATABASE_INIT) \X (DOMAIN DRUG_DATABASE_INIT) :
        Listed(DRUG_DATABASE_INIT, p[1], p[2])}

\* C1 as stated: for every pair (d1, d2) of the drug table with d2 in
\* interacts_with(d1), check_interactions of the collection {d1, d2}, in
\* whichever order it is enumerated, contains "d1 interacts with d2".
C1_AnyOrder ==
    \A c \in Clients : \A p \in InteractingPairs :
        (HasInteractions(c) /\ SetOf(extracted_drugs[c]) = {p[1], p[2]})
            => InList(ExpectedStatement(p[1], p[2]), interactions[c])

\* C1 amended: for every such pair, check_interactions of {d1, d2} contains
\* "d1 interacts with d2" when d1 is enumerated before d2; when d2 is
\* enumerated first it does not contain that statement, and it contains
\* "d2 interacts with d1" exactly when d1 is in interacts_with(d2).
C1_FirstListsSecond ==
    \A c \in Clients : \A p \in InteractingPairs :
        HasInteractions(c) =>
            /\ extracted_drugs[c] = <<p[1], p[2]>>
                  => InList(ExpectedStatement(p[1], p[2]), interactions[c])
            /\ extracted_drugs[c] = <<p[2], p[1]>>
                  => /\ ~InList(ExpectedStatement(p[1], p[2]), interactions[c])
                     /\ InList(ExpectedStatement(p[2], p[1]), interactions[c])
                           <=> Listed(DRUG_DATABASE_INIT, p[2], p[1])

\* The pair (ibuprofen, aspirin) enumerated aspirin first.
C1_Witness ==
    /\ pc[1] = "return"
    /\ extracted_drugs[1] = <<"aspirin", "ibuprofen">>
    /\ interactions[1] = <<"aspirin interacts with ibuprofen">>

ExpectedRestriction(min_age) == "Not recommended under age " \o ToString(min_age)

\* C2: recommend_dosage maps each drug of drugs that the table knows to the
\* table's dosage when age >= min_age and to "Not recommended under age
\* <min_age>" when age < min_age, and has a key for a drug if and only if the
\* drug is in drugs and in the table (ibuprofen: "200mg" at 12, restricted at
\* 11; paracetamol restricted at 0).
C2_Dosage ==
    \A c \in Clients :
        HasDosage(c) =>
            LET drugs == SetOf(extracted_drugs[c])
                result == dosage_info[c]
            IN  /\ DOMAIN result = drugs \cap DOMAIN DRUG_DATABASE_INIT
                /\ \A d \in DOMAIN result :
                      result[d] = IF age[c] >= DRUG_DATABASE_INIT[d].min_age
                                  THEN DRUG_DATABASE_INIT[d].dosage
                                  ELSE ExpectedRestriction(DRUG_DATABASE_INIT[d].min_age)
                /\ ("ibuprofen" \in drugs /\ age[c] = 12) => result["ibuprofen"] = "200mg"
                /\ ("ibuprofen" \in drugs /\ age[c] = 11)
                      => result["ibuprofen"] = "Not recommended under age 12"
                /\ ("paracetamol" \in drugs /\ age[c] = 0)
                      => result["paracetamol"] = "Not recommended under age 1"

\* Ibuprofen at its boundary age beside an unknown drug.
C2_Witness ==
    /\ pc[1] = "return"
    /\ age[1] = 12
    /\ SetOf(extracted_drugs[1]) = {"ibuprofen", "aspirin", "warfarin"}
    /\ dosage_info[1] = [ibuprofen |-> "200mg", aspirin |-> "Not recommended under age 16"]

\* C3: suggest_alternatives has a key exactly for each drug of drugs that is a
\* key of ALTERNATIVES, mapped to its alternative; the placeholder "No
\* alternative found" appears in no result ({ibuprofen, paracetamol} yields
\* only {ibuprofen: paracetamol}).
C3_Alternatives ==
    \A c \in Clients :
        HasAlternatives(c) =>
            LET drugs == SetOf(extracted_drugs[c])
                result == alternatives[c]
            IN  /\ DOMAIN result = drugs \cap DOMAIN ALTERNATIVES_INIT
                /\ \A d \in DOMAIN result :
                      result[d] = ALTERNATIVES_INIT[d] /\ result[d] # "No alternative found"
                /\ drugs = {"ibuprofen", "paracetamol"} => result = [ibuprofen |-> "paracetamol"]

C3_Witness ==
    /\ pc[1] = "return"
    /\ SetOf(extracted_drugs[1]) = {"ibuprofen", "paracetamol"}
    /\ alternatives[1] = [ibuprofen |-> "paracetamol"]

\* The surface texts of Words paired with their lowercase forms.
LowercaseOf ==
    [ibuprofen |-> "ibuprofen", Ibuprofen |-> "ibuprofen", aspirin |-> "aspirin",
     ASPIRIN |-> "aspirin", paracetamol |-> "paracetamol", warfarin |-> "warfarin"]

\* C4: extract_drugs returns exactly the lowercased surface texts of the spans
\* labelled "MISC", each once (spans equal up to letter case give one
\* element); spans with another label contribute nothing, and without a
\* qualifying span the result is empty.
C4_Extract ==
    \A c \in Clients :
        Extracted(c) =>
            LET ents == entities[c]
                misc == {i \in 1..Len(ents) : ents[i].entity_group = "MISC"}
                drugs == extracted_drugs[c]
            IN  /\ SetOf(drugs) = {LowercaseOf[ents[i].word] : i \in misc}
                /\ \A i, j \in 1..Len(drugs) : drugs[i] = drugs[j] => i = j
                /\ misc = {} => drugs = <<>>

\* The same drug three times, in two letter cases and once under another label,
\* beside a second drug.
C4_Witness ==
    /\ pc[1] = "check_interactions"
    /\ entities[1] = <<Span("Ibuprofen", "MISC"), Span("aspirin", "ORG"),
                       Span("ibuprofen", "MISC")>>
    /\ extracted_drugs[1] = <<"ibuprofen">>

\* C5: when the extractor labels both "ibuprofen" and "aspirin" as MISC and the
\* age is 20, the response holds both drugs, at least one interaction
\* statement, the dosages "200mg" and "100mg" and the alternative
\* "paracetamol" for both, in every enumeration order.
C5_EndToEnd ==
    \A c \in Clients :
        (/\ status[c] = 200
         /\ age[c] = 20
         /\ InList(Span("ibuprofen", "MISC"), entities[c])
         /\ InList(Span("aspirin", "MISC"), entities[c]))
            => /\ {"ibuprofen", "aspirin"} \subseteq SetOf(extracted_drugs[c])
               /\ Len(interactions[c]) >= 1
               /\ {"ibuprofen", "aspirin"} \subseteq DOMAIN dosage_info[c]
               /\ dosage_info[c]["ibuprofen"] = "200mg"
               /\ dosage_info[c]["aspirin"] = "100mg"
               /\ {"ibuprofen", "aspirin"} \subseteq DOMAIN alternatives[c]
               /\ alternatives[c]["ibuprofen"] = "paracetamol"
               /\ alternatives[c]["aspirin"] = "paracetamol"

\* The response shown to the client, aspirin enumerated first.
C5_Witness ==
    /\ ui[1] = "Rendered"
    /\ age[1] = 20
    /\ entities[1] = <<Span("ibuprofen", "MISC"), Span("aspirin", "MISC")>>
    /\ extracted_drugs[1] = <<"aspirin", "ibuprofen">>
    /\ interactions[1] = <<"aspirin interacts with ibuprofen">>

\* C6: check_interactions, recommend_dosage and suggest_alternatives return a
\* value for every collection of extracted strings (unknown strings and the
\* empty collection included) and every age; only the extractor's failure
\* ends a request with an error status.
C6_NoFault ==
    \A c \in Clients :
        /\ Extracted(c) =>
              /\ check_interactions(extracted_drugs[c]).exc = "none"
              /\ recommend_dosage(extracted_drugs[c], age[c]).exc = "none"
              /\ suggest_alternatives(extracted_drugs[c]).exc = "none"
        /\ status[c] = 500 => entities[c] = <<>> /\ extracted_drugs[c] = <<>>

\* A request whose only extracted string is unknown to both tables, answered.
C6_Witness ==
    /\ status[1] = 200
    /\ extracted_drugs[1] = <<"warfarin">>
    /\ interactions[1] = <<>>
    /\ dosage_info[1] = EmptyDict
    /\ alternatives[1] = EmptyDict

\* C10: every key of dosage_info and of alternatives is an extracted drug, and
\* every interaction statement names two distinct extracted drugs.
C10_Containment ==
    \A c \in Clients :
        LET drugs == SetOf(extracted_drugs[c])
        IN  /\ DOMAIN dosage_info[c] \subseteq drugs
            /\ DOMAIN alternatives[c] \subseteq drugs
            /\ \A k \in 1..Len(interactions[c]) :
                  \E a, b \in drugs :
                      a # b /\ interactions[c][k] = ExpectedStatement(a, b)

\* A response with every field non-empty and a drug outside each mapping.
C10_Witness ==
    /\ status[1] = 200
    /\ SetOf(extracted_drugs[1]) = {"ibuprofen", "aspirin", "warfarin"}
    /\ Len(interactions[1]) = 1
    /\ DOMAIN dosage_info[1] = {"ibuprofen", "aspirin"}
    /\ DOMAIN alternatives[1] = {"ibuprofen", "aspirin"}

\* C7: no request changes DRUG_DATABASE or ALTERNATIVES, and under every
\* interleaving each request's fields are those of the request run alone, on
\* the tables as initialised, with the same extracted spans and age.
C7_Stateless ==
    /\ DRUG_DATABASE = DRUG_DATABASE_INIT
    /\ ALTERNATIVES = ALTERNATIVES_INIT
    /\ \A c \in Clients :
          /\ Extracted(c) => extracted_drugs[c] \in extract_drugs(entities[c])
          /\ HasInteractions(c) =>
                interactions[c] = CheckInteractionsIn(DRUG_DATABASE_INIT, extracted_drugs[c]).val
          /\ HasDosage(c) =>
                dosage_info[c] = RecommendDosageIn(DRUG_DATABASE_INIT, extracted_drugs[c], age[c]).val
          /\ HasAlternatives(c) =>
                alternatives[c] = SuggestAlternativesIn(ALTERNATIVES_INIT, extracted_drugs[c]).val

\* Two requests in the handler at once, on different texts and ages, the
\* second having passed the table lookups of an unknown drug.
C7_Witness ==
    /\ pc[1] = "return"
    /\ pc[2] = "return"
    /\ age[1] = 20
    /\ age[2] = 11
    /\ interactions[1] = <<"ibuprofen interacts with aspirin">>
    /\ SetOf(extracted_drugs[2]) = {"warfarin", "paracetamol"}
    /\ dosage_info[2] = [paracetamol |-> "500mg"]

\* C8 as stated: a trigger takes the client to Submitting and issues exactly one request;
\* from Submitting the client goes to Rendered on status 200 and to Failed on
\* any other status, without a second request; the only other change of the
\* page is the return to the form (Idle); a request is issued by a trigger only.
C8_ClientStep ==
    \A c \in Clients :
        /\ (ui[c] # "Submitting" /\ ui'[c] = "Submitting")
              => sent'[c] = sent[c] + 1 /\ pc'[c] = "extract_drugs"
        /\ sent'[c] # sent[c] => (ui[c] # "Submitting" /\ ui'[c] = "Submitting")
        /\ (ui[c] = "Submitting" /\ ui'[c] # "Submitting")
              => /\ pc[c] = "responded"
                 /\ status[c] = 200 => ui'[c] = "Rendered"
                 /\ status[c] # 200 => ui'[c] = "Failed"
        /\ (ui[c] # "Submitting" /\ ui'[c] # ui[c]) => ui'[c] \in {"Idle", "Submitting"}
        /\ pc[c] # "none" => ui[c] = "Submitting"

C8_ClientMachine == [][C8_ClientStep]_vars

\* a is enumerated before b in drugs
Precedes(drugs, a, b) ==
    \E i, j \in 1..Len(drugs) : i < j /\ drugs[i] = a /\ drugs[j] = b

\* C9: for a duplicate-free enumeration, "<a> interacts with <b>" is emitted if
\* and only if a precedes b and b is in a's interacts_with list; each
\* unordered pair yields at most one statement; where a lists b and b does
\* not list a, the pair is flagged when a comes first and not at all when b
\* comes first.
C9_OneDirection ==
    \A c \in Clients :
        HasInteractions(c) =>
            LET drugs == extracted_drugs[c]
                out == interactions[c]
                S == SetOf(drugs)
            IN  /\ \A a, b \in S :
                      InList(ExpectedStatement(a, b), out)
                          <=> (Precedes(drugs, a, b) /\ Listed(DRUG_DATABASE, a, b))
                /\ \A a, b \in S :
                      ~(InList(ExpectedStatement(a, b), out) /\ InList(ExpectedStatement(b, a), out))
                /\ \A i, j \in 1..Len(out) : out[i] = out[j] => i = j
                /\ \A a, b \in S :
                      (Listed(DRUG_DATABASE, a, b) /\ ~Listed(DRUG_DATABASE, b, a))
                          => /\ Precedes(drugs, a, b) => InList(ExpectedStatement(a, b), out)
                             /\ Precedes(drugs, b, a)
                                   => /\ ~InList(ExpectedStatement(a, b), out)
                                      /\ ~InList(ExpectedStatement(b, a), out)

\* Ibuprofen lists aspirin, aspirin lists nothing, aspirin is enumerated first.
C9_Witness ==
    /\ DRUG_DATABASE = ASYMMETRIC_DATABASE
    /\ pc[1] = "return"
    /\ extracted_drugs[1] = <<"aspirin", "warfarin", "ibuprofen">>
    /\ interactions[1] = <<>>

=============================================================================
